---- MODULE Spec2Model ----
(***************************************************************************)
(* State-access core of the client: the execution-proof codec              *)
(* (state_to_execution_proof / state_from_execution_proof), the            *)
(* externalities view Ext over an OverlayedChanges and a state backend,    *)
(* and RemoteCallExecutor::call, which checks a fetched execution proof    *)
(* against the locally held header and re-executes the call.               *)
(*                                                                         *)
(* Three specifications share the variables:                               *)
(*   SpecProof  the proof codec applied to bounded inputs                  *)
(*   SpecExt    the operations of one Ext over one overlay and backend     *)
(*   SpecRoot   the same, with the history of the roots computed           *)
(*   Spec       one execution of RemoteCallExecutor::call, step by step    *)
(***************************************************************************)
EXTENDS Integers, Sequences, FiniteSets, TLC

(***************************************************************************)
(* Values                                                                  *)
(***************************************************************************)

\* Vec<u8> values used as storage keys, storage values and proof elements.
ByteStrings == {"a", "b"}

\* Option::None, for Option<Vec<u8>> and for the items of an iterator.
None == "None"

\* Longest execution proof the fetcher hands over (number of elements).
MaxProofLen == 5

\* HashMap<Vec<u8>, Vec<u8>> with no entry.
EmptyMap == [k \in {} |-> None]

\* Every in-memory state: a map from some keys to values.
States == UNION {[D -> ByteStrings] : D \in SUBSET ByteStrings}

\* Every execution proof of at most MaxProofLen elements.
Proofs == UNION {[1..n -> ByteStrings] : n \in 0..MaxProofLen}

\* The orders in which a HashMap may hand out the entries of key set S.
Orderings(S) ==
  {o \in [1..Cardinality(S) -> S] : \A i, j \in 1..Cardinality(S) : o[i] = o[j] => i = j}

(***************************************************************************)
(* In-memory state backend (state_machine::backend::InMemory)              *)
(***************************************************************************)

\* InMemory::insert: HashMap insert, a later value replaces an earlier one.
InMemoryInsert(state, key, value) ==
  [k \in (DOMAIN state) \cup {key} |-> IF k = key THEN value ELSE state[k]]

\* Backend::pairs of a map, handed out in the order `order` of its keys.
BackendPairs(state, order) ==
  [i \in 1..Len(order) |-> <<order[i], state[order[i]]>>]

(***************************************************************************)
(* The proof codec, call_executor.rs                                       *)
(***************************************************************************)

\* flat_map(|(k, v)| once(k).chain(once(v))).collect() over the pairs.
RECURSIVE FlatMapPairs(_)
FlatMapPairs(pairs) ==
  IF pairs = <<>> THEN <<>>
  ELSE <<Head(pairs)[1]>> \o <<Head(pairs)[2]>> \o FlatMapPairs(Tail(pairs))

\* An encoder that writes each pair's value before its key.
StateToExecutionProofSwapped(pairs) ==
  [i \in 1..(2 * Len(pairs)) |-> IF i % 2 = 1 THEN pairs[(i + 1) \div 2][2]
                                             ELSE pairs[i \div 2][1]]

\* state_to_execution_proof, given the pairs the backend handed out.
StateToExecutionProof(pairs) == FlatMapPairs(pairs)

\* Iterator::next: the next item (None when exhausted) and the iterator after it.
IterNext(iter) ==
  IF iter = <<>> THEN [item |-> None, rest |-> <<>>]
  ELSE [item |-> Head(iter), rest |-> Tail(iter)]

\* A decoder that treats an unpaired trailing element as a key with an empty value.
RECURSIVE ProofLoopKeepTrailing(_, _)
ProofLoopKeepTrailing(state, proof_iter) ==
  LET key == IterNext(proof_iter)
      value == IterNext(key.rest)
  IN IF key.item # None /\ value.item # None
       THEN ProofLoopKeepTrailing(InMemoryInsert(state, key.item, value.item), value.rest)
       ELSE IF key.item # None THEN InMemoryInsert(state, key.item, key.item)
       ELSE state

\* The loop of state_from_execution_proof: take a key, take a value, insert
\* the pair when both are there and stop otherwise.
RECURSIVE ProofLoop(_, _)
ProofLoop(state, proof_iter) ==
  LET key == IterNext(proof_iter)
      value == IterNext(key.rest)
  IN IF key.item # None /\ value.item # None
       THEN ProofLoop(InMemoryInsert(state, key.item, value.item), value.rest)
       ELSE state

\* A decoder that keeps the first value a proof gives for a key.
RECURSIVE ProofLoopFirstWins(_, _)
ProofLoopFirstWins(state, proof_iter) ==
  LET key == IterNext(proof_iter)
      value == IterNext(key.rest)
  IN IF key.item # None /\ value.item # None
       THEN ProofLoopFirstWins(IF key.item \in DOMAIN state THEN state
                               ELSE InMemoryInsert(state, key.item, value.item),
                               value.rest)
       ELSE state

StateFromExecutionProofFirstWins(proof) == ProofLoopFirstWins(EmptyMap, proof)

\* state_from_execution_proof.
StateFromExecutionProof(proof) == ProofLoop(EmptyMap, proof)

(***************************************************************************)
(* Trie root (triehash::trie_root)                                         *)
(***************************************************************************)

\* BTreeMap collect of the pairs an iterator hands over: a later pair replaces
\* an earlier one with the same key.
RECURSIVE CollectPairs(_, _)
CollectPairs(map, pairs) ==
  IF pairs = <<>> THEN map
  ELSE CollectPairs(InMemoryInsert(map, Head(pairs)[1], Head(pairs)[2]), Tail(pairs))

\* trie_root(pairs).0: a commitment to the key/value set of the pairs, whatever
\* their order; two sets have the same root exactly when they are equal
\* (the hash is taken to be collision free).
TrieRoot(pairs) == [root_of |-> CollectPairs(EmptyMap, pairs)]

(***************************************************************************)
(* State backend and overlay (state_machine::Backend, OverlayedChanges)    *)
(***************************************************************************)

\* Overlay::storage's "no entry for the key": the outer Option::None.
Absent == "Absent"

\* A failed backend read: Err(_) of Backend::storage.
BackendErr == "BackendErr"

\* Ext::storage's expect() failing: the execution is aborted.
Panic == "Panic"

\* One tier of the overlay: HashMap<Vec<u8>, Option<Vec<u8>>>.
Tiers == UNION {[D -> ByteStrings \cup {None}] : D \in SUBSET ByteStrings}

\* OverlayedChanges::default().
EmptyOverlay == [committed |-> EmptyMap, prospective |-> EmptyMap]

\* Backend::storage(key): the snapshot's value, None when it has none, an
\* error when the read of that key fails.
BackendStorage(backend, key) ==
  IF key \in backend.broken THEN BackendErr
  ELSE IF key \in DOMAIN backend.data THEN backend.data[key]
  ELSE None

\* An in-memory backend holding `state`; its reads never fail.
InMemoryBackend(state) == [data |-> state, broken |-> {}]

\* OverlayedChanges::storage(key): prospective, then committed, else no entry.
OverlayStorage(overlay, key) ==
  IF key \in DOMAIN overlay.prospective THEN overlay.prospective[key]
  ELSE IF key \in DOMAIN overlay.committed THEN overlay.committed[key]
  ELSE Absent

\* OverlayedChanges::set_storage(key, value): an entry of the prospective tier.
OverlaySetStorage(overlay, key, value) ==
  [overlay EXCEPT !.prospective = InMemoryInsert(overlay.prospective, key, value)]

(***************************************************************************)
(* Ext, ext.rs                                                             *)
(***************************************************************************)

\* A storage read that reads the backend before it looks at the overlay.
ExtStorageEager(overlay, backend, key) ==
  IF BackendStorage(backend, key) = BackendErr THEN Panic
  ELSE IF OverlayStorage(overlay, key) # Absent THEN OverlayStorage(overlay, key)
  ELSE BackendStorage(backend, key)

\* A storage read that asks the backend first and the overlay only for keys
\* the backend does not hold.
ExtStorageBackendFirst(overlay, backend, key) ==
  IF BackendStorage(backend, key) \in ByteStrings THEN BackendStorage(backend, key)
  ELSE IF OverlayStorage(overlay, key) # Absent THEN OverlayStorage(overlay, key)
  ELSE IF BackendStorage(backend, key) = BackendErr THEN Panic
  ELSE None

\* Ext::storage(key): the overlay's entry when it has one, else the backend's
\* value; a failed backend read panics.
ExtStorage(overlay, backend, key) ==
  IF OverlayStorage(overlay, key) # Absent THEN OverlayStorage(overlay, key)
  ELSE IF BackendStorage(backend, key) = BackendErr THEN Panic
  ELSE BackendStorage(backend, key)

\* The backend keys Ext::storage(key) reads: unwrap_or_else runs the backend
\* read only when the overlay has no entry for the key.
ExtStorageBackendReads(overlay, backend, key) ==
  IF OverlayStorage(overlay, key) # Absent THEN {} ELSE {key}

\* A write that goes to the committed tier.
ExtPlaceStorageCommitted(overlay, key, value) ==
  [overlay EXCEPT !.committed = InMemoryInsert(overlay.committed, key, value)]

\* A write that drops deletions.
ExtPlaceStorageNoDelete(overlay, key, value) ==
  IF value = None THEN overlay ELSE OverlaySetStorage(overlay, key, value)

\* Ext::place_storage(key, value).
ExtPlaceStorage(overlay, key, value) == OverlaySetStorage(overlay, key, value)

\* .filter_map(|(k, maybe_val)| maybe_val.map(|val| (k, val))) over entries.
RECURSIVE FilterSome(_)
FilterSome(entries) ==
  IF entries = <<>> THEN <<>>
  ELSE IF Head(entries)[2] = None THEN FilterSome(Tail(entries))
  ELSE <<Head(entries)>> \o FilterSome(Tail(entries))

\* A merge that hands out the deleted keys too, with None for a value.
StorageRootInputKeepDeleted(backend_pairs, committed, prospective, order) ==
  BackendPairs(CollectPairs(EmptyMap, backend_pairs \o committed \o prospective), order)

\* A merge that chains the committed entries after the prospective ones.
StorageRootInputCommittedLast(backend_pairs, committed, prospective, order) ==
  LET merged == CollectPairs(EmptyMap, backend_pairs \o prospective \o committed)
  IN FilterSome(BackendPairs(merged, order))

\* The iterator Ext::storage_root hands to trie_root: the backend's pairs, then
\* the committed entries, then the prospective entries, collected into a
\* HashMap (a later entry replaces an earlier one) and handed out in the order
\* `order` of its keys without the entries whose value is None.
StorageRootInput(backend_pairs, committed, prospective, order) ==
  LET merged == CollectPairs(EmptyMap, backend_pairs \o committed \o prospective)
  IN FilterSome(BackendPairs(merged, order))

(***************************************************************************)
(* Code executor and state_machine::execute                                *)
(***************************************************************************)

\* The runtime methods of the code executor.
Methods == {"get", "put", "clear", "trap"}

\* An empty Vec<u8> returned by a method.
EmptyBytes == ""

\* What a method can return.
Outputs == ByteStrings \cup {EmptyBytes}

\* CodeExecutor::call(ext, method, call_data) of a runtime with four methods,
\* call_data naming a key:
\*   get    returns the value Ext::storage reads for the key (empty when None);
\*   put    places the key's own bytes as its value and returns what it reads back;
\*   clear  places a deletion of the key and returns empty;
\*   trap   places a value and then fails.
\* The result holds the overlay as the method left it.
CodeExecutorCall(overlay, backend, method, call_data) ==
  LET read(o) == ExtStorage(o, backend, call_data)
      bytes(v) == IF v = None THEN EmptyBytes ELSE v
      written == ExtPlaceStorage(overlay, call_data, call_data)
      cleared == ExtPlaceStorage(overlay, call_data, None)
  IN CASE method = "get" ->
            IF read(overlay) = Panic
              THEN [status |-> Panic, overlay |-> overlay]
              ELSE [status |-> "Ok", output |-> bytes(read(overlay)), overlay |-> overlay]
       [] method = "put" ->
            [status |-> "Ok", output |-> bytes(read(written)), overlay |-> written]
       [] method = "clear" ->
            [status |-> "Ok", output |-> EmptyBytes, overlay |-> cleared]
       [] method = "trap" ->
            [status |-> "Err", overlay |-> written]

\* state_machine::execute(backend, overlay, exec, method, call_data): an Ext
\* over the overlay and the backend is handed to the code executor.
Execute(backend, overlay, method, call_data) ==
  CodeExecutorCall(overlay, backend, method, call_data)

(***************************************************************************)
(* Variables                                                               *)
(***************************************************************************)

VARIABLES
  \* the proof codec applied to an input
  pf_mode,      \* "encode": a state is encoded, then decoded; "decode": a proof is decoded
  pf_pc,        \* "input", "encoded", "decoded"
  pf_state,     \* the backend state handed to state_to_execution_proof
  pf_proof,     \* the execution proof
  pf_out        \* the state state_from_execution_proof returned

pf_vars == <<pf_mode, pf_pc, pf_state, pf_proof, pf_out>>

\* one Ext over one overlay and one backend
VARIABLES
  ext_backend,  \* the backend snapshot: [data, broken]
  ext_overlay,  \* the OverlayedChanges: [committed, prospective]
  ext_placed,   \* history: per key, the value of the latest place_storage, if any
  ext_rev,      \* history: the latest root and the write made and taken back since
  ext_last      \* the latest operation of the Ext and what it returned

ext_vars == <<ext_backend, ext_overlay, ext_placed, ext_rev, ext_last>>

\* one execution of RemoteCallExecutor::call
VARIABLES
  entry,              \* the method of the CallExecutor that was called
  chain,              \* the blockchain collaborator: [hash, header]
  id,                 \* the BlockId of the call: [tag |-> "Hash" or "Number", of]
  method,             \* the method called
  call_data,          \* its input
  pc,                 \* the statement of call() to run next, or "Done" / "Failed"
  block_hash,         \* the locals of call(), Unset until assigned
  remote_result,
  remote_proof,
  remote_state,
  remote_state_root,
  local_state_root,
  changes,
  local_result,
  at_state,           \* the state backend a local execution runs on
  result,             \* what call() returned: Ok(CallResult) or Err(kind)
  answers,            \* history: what the collaborators answered, by kind
  trace               \* history: the steps taken so far, in order

rc_vars == <<entry, chain, id, method, call_data, pc, block_hash, remote_result, remote_proof,
             remote_state, remote_state_root, local_state_root, changes, local_result,
             at_state, result, answers, trace>>

\* several calls of LocalCallExecutor::call running at once
VARIABLES
  cc_snapshot,        \* the state the backend handed out to every call
  cc_overlays,        \* the `changes` of each call
  cc_calls            \* each call: its method and input, its position, what it read and returned

cc_vars == <<cc_snapshot, cc_overlays, cc_calls>>

vars == <<pf_vars, ext_vars, rc_vars, cc_vars>>

(***************************************************************************)
(* The part of the state a specification does not use stays idle.          *)
(***************************************************************************)

PfIdle ==
  /\ pf_mode = "off" /\ pf_pc = "off"
  /\ pf_state = EmptyMap /\ pf_proof = <<>> /\ pf_out = EmptyMap

Unplaced == "Unplaced"

\* No root has been computed that the next root could be compared with.
NoRev == [phase |-> "none"]

\* The history of roots is not recorded.
RevOff == [phase |-> "off"]

ExtIdle ==
  /\ ext_backend = InMemoryBackend(EmptyMap)
  /\ ext_overlay = EmptyOverlay
  /\ ext_placed = [k \in ByteStrings |-> Unplaced]
  /\ ext_rev = RevOff
  /\ ext_last = [op |-> "off"]

\* A local of call() that is not assigned yet.
Unset == "Unset"

\* call() has not returned.
Pending == [kind |-> "Pending"]

\* No collaborator has been asked yet.
Unasked == [hash |-> "unasked", fetch |-> "unasked", header |-> "unasked",
            state_at |-> "unasked"]

RcIdle ==
  /\ entry = "off"
  /\ chain = [hash |-> EmptyMap, header |-> EmptyMap]
  /\ id = [tag |-> "off"] /\ method = "off" /\ call_data = "off" /\ pc = "off"
  /\ block_hash = Unset /\ remote_result = Unset /\ remote_proof = Unset
  /\ remote_state = Unset /\ remote_state_root = Unset /\ local_state_root = Unset
  /\ changes = Unset /\ local_result = Unset /\ at_state = Unset
  /\ result = Pending /\ answers = Unasked /\ trace = <<>>

CcIdle ==
  /\ cc_snapshot = InMemoryBackend(EmptyMap)
  /\ cc_overlays = <<>>
  /\ cc_calls = <<>>

(***************************************************************************)
(* SpecProof: the codec on bounded inputs                                  *)
(***************************************************************************)

InitProof ==
  /\ pf_pc = "input"
  /\ pf_out = EmptyMap
  /\ \/ pf_mode = "encode" /\ pf_state \in States /\ pf_proof = <<>>
     \/ pf_mode = "decode" /\ pf_state = EmptyMap /\ pf_proof \in Proofs
  /\ ExtIdle /\ RcIdle /\ CcIdle

\* state_to_execution_proof(&state): the backend hands out its pairs in some order.
Encode ==
  /\ pf_mode = "encode" /\ pf_pc = "input"
  /\ \E order \in Orderings(DOMAIN pf_state) :
       pf_proof' = StateToExecutionProof(BackendPairs(pf_state, order))
  /\ pf_pc' = "encoded"
  /\ UNCHANGED <<pf_mode, pf_state, pf_out, ext_vars, rc_vars, cc_vars>>

\* state_from_execution_proof(proof).
Decode ==
  /\ \/ pf_mode = "encode" /\ pf_pc = "encoded"
     \/ pf_mode = "decode" /\ pf_pc = "input"
  /\ pf_out' = StateFromExecutionProof(pf_proof)
  /\ pf_pc' = "decoded"
  /\ UNCHANGED <<pf_mode, pf_state, pf_proof, ext_vars, rc_vars, cc_vars>>

NextProof == Encode \/ Decode

SpecProof == InitProof /\ [][NextProof]_vars

(***************************************************************************)
(* SpecExt: the operations of one Ext                                      *)
(***************************************************************************)

\* An Ext is built over a backend snapshot and an overlay whose committed tier
\* holds what the commit path put there; nothing is placed yet.
InitExt ==
  /\ \E data \in States, broken \in SUBSET ByteStrings :
       ext_backend = [data |-> data, broken |-> broken]
  /\ \E committed \in Tiers :
       ext_overlay = [committed |-> committed, prospective |-> EmptyMap]
  /\ ext_placed = [k \in ByteStrings |-> Unplaced]
  /\ ext_rev = RevOff
  /\ ext_last = [op |-> "new"]
  /\ PfIdle /\ RcIdle /\ CcIdle

\* A panic of Ext::storage aborts the execution: the Ext is used no further.
ExtRunning == ext_last.op \in {"new", "storage", "place_storage", "storage_root"}
                /\ ~(ext_last.op = "storage" /\ ext_last.result = Panic)

\* Ext::storage(key).
Storage(key) ==
  /\ ExtRunning
  /\ ext_last' = [op |-> "storage", key |-> key,
                  result |-> ExtStorage(ext_overlay, ext_backend, key),
                  reads |-> ExtStorageBackendReads(ext_overlay, ext_backend, key)]
  /\ UNCHANGED <<ext_backend, ext_overlay, ext_placed, ext_rev, pf_vars, rc_vars, cc_vars>>

\* History of a write made after a root was computed and of its being taken
\* back: the write of `value` to `key`, as it follows the history `rev`, when
\* the key read as `original` before the write.
RevAfterPlace(rev, key, value, original) ==
  IF rev.phase = "off" THEN RevOff
  ELSE IF rev.phase = "rooted" /\ original # Panic
    THEN [phase |-> "written", key |-> key, original |-> original, root |-> rev.root]
  ELSE IF rev.phase = "written" /\ key = rev.key /\ value = rev.original
    THEN [phase |-> "reverted", root |-> rev.root]
  ELSE NoRev

\* Ext::place_storage(key, value).
PlaceStorage(key, value) ==
  /\ ExtRunning
  /\ ext_overlay' = ExtPlaceStorage(ext_overlay, key, value)
  /\ ext_placed' = [ext_placed EXCEPT ![key] = value]
  /\ ext_rev' = RevAfterPlace(ext_rev, key, value, ExtStorage(ext_overlay, ext_backend, key))
  /\ ext_last' = [op |-> "place_storage", key |-> key, value |-> value]
  /\ UNCHANGED <<ext_backend, pf_vars, rc_vars, cc_vars>>

\* The iterators Ext::storage_root may hand to trie_root: each map hands out
\* its entries in some order.
StorageRootInputs(overlay, backend) ==
  LET chained == (DOMAIN backend.data) \cup (DOMAIN overlay.committed)
                   \cup (DOMAIN overlay.prospective)
  IN {StorageRootInput(BackendPairs(backend.data, ob),
                       BackendPairs(overlay.committed, oc),
                       BackendPairs(overlay.prospective, op), om) :
        ob \in Orderings(DOMAIN backend.data),
        oc \in Orderings(DOMAIN overlay.committed),
        op \in Orderings(DOMAIN overlay.prospective),
        om \in Orderings(chained)}

\* Ext::storage_root().
StorageRoot ==
  /\ ExtRunning
  /\ \E input \in StorageRootInputs(ext_overlay, ext_backend) :
       /\ ext_last' = [op |-> "storage_root", input |-> input, root |-> TrieRoot(input),
                       prev |-> ext_rev]
       /\ ext_rev' = IF ext_rev.phase = "off" THEN RevOff
                     ELSE [phase |-> "rooted", root |-> TrieRoot(input)]
  /\ UNCHANGED <<ext_backend, ext_overlay, ext_placed, pf_vars, rc_vars, cc_vars>>

NextExt ==
  \/ \E key \in ByteStrings : Storage(key)
  \/ \E key \in ByteStrings, value \in ByteStrings \cup {None} : PlaceStorage(key, value)
  \/ StorageRoot

SpecExt == InitExt /\ [][NextExt]_vars

\* The same Ext over a backend whose reads succeed, with the history of roots
\* recorded.
InitRoot ==
  /\ \E data \in States : ext_backend = InMemoryBackend(data)
  /\ \E committed \in Tiers :
       ext_overlay = [committed |-> committed, prospective |-> EmptyMap]
  /\ ext_placed = [k \in ByteStrings |-> Unplaced]
  /\ ext_rev = NoRev
  /\ ext_last = [op |-> "new"]
  /\ PfIdle /\ RcIdle /\ CcIdle

SpecRoot == InitRoot /\ [][NextExt]_vars

(***************************************************************************)
(* Spec: RemoteCallExecutor::call, call_executor.rs                        *)
(***************************************************************************)

\* Block hashes and block numbers.
Hashes == {"h1", "h2"}
Numbers == {"n1"}

\* The steps of call(), in the order of its statements.
Steps == <<"resolve", "fetch", "rebuild", "header", "check_root", "execute", "check_output">>

\* An error that carried the overlay of the failed call.
FailedWithChanges(kind) == [kind |-> "Err", error |-> kind, changes |-> changes]

\* call() returns Err(kind).
Failed(kind) == [kind |-> "Err", error |-> kind]

\* The state roots a header can hold: the root of every state.
HeaderRoots ==
  {TrieRoot(BackendPairs(st, CHOOSE o \in Orderings(DOMAIN st) : TRUE)) : st \in States}

\* The blockchain maps the numbers it knows to hashes and holds the headers of
\* the blocks it knows, each with the state root of the block's state; the
\* caller names a block, a method and an input.
Init ==
  /\ entry = "RemoteCallExecutor::call"
  /\ \E numbered \in SUBSET Numbers, headed \in SUBSET {"h1"} :
       \E hash \in [numbered -> Hashes], header \in [headed -> HeaderRoots] :
         chain = [hash |-> hash, header |-> header]
  /\ id \in [tag : {"Hash"}, of : Hashes] \cup [tag : {"Number"}, of : Numbers]
  /\ method \in Methods
  /\ call_data \in ByteStrings
  /\ pc = "resolve"
  /\ block_hash = Unset /\ remote_result = Unset /\ remote_proof = Unset
  /\ remote_state = Unset /\ remote_state_root = Unset /\ local_state_root = Unset
  /\ changes = Unset /\ local_result = Unset /\ at_state = Unset
  /\ result = Pending /\ answers = Unasked /\ trace = <<>>
  /\ PfIdle /\ ExtIdle /\ CcIdle

\* The errors the fetcher fails with: error kinds of the client crate.
FetcherErrors == {"Backend", "Blockchain"}

\* The error of a missing block, were it reported as a blockchain error.
UnknownBlockAsBlockchain(block_id) == "Blockchain"

\* .ok_or_else(|| ErrorKind::UnknownBlock(..))
UnknownBlock(block_id) == "UnknownBlock"

\* The conversion of an executor error, were it reported as a bad proof.
FromExecutionErrorAsInvalidProof == "InvalidExecutionProof"

\* impl From<Box<state_machine::Error>> for Error: ErrorKind::Execution(e)
FromExecutionError == "Execution"

\* A step that returns Err(kind) from call().
Fail(step, kind) ==
  /\ pc' = "Failed"
  /\ result' = Failed(kind)
  /\ trace' = Append(trace, step)

\* A step that goes on to the statement `next`.
Goto(step, next) ==
  /\ pc' = next
  /\ trace' = Append(trace, step)
  /\ UNCHANGED result

\* A resolution that falls back to the hash h1 for a number the blockchain
\* does not know.
BlockHashOfOrDefault(block_id, blockchain) ==
  IF block_id.tag = "Hash" THEN block_id.of
  ELSE IF block_id.of \in DOMAIN blockchain.hash THEN blockchain.hash[block_id.of]
  ELSE "h1"

\* match *id { Hash(hash) => hash, Number(number) => blockchain().hash(number) }:
\* the hash of the block, None when the blockchain has no hash for the number.
BlockHashOf(block_id, blockchain) ==
  IF block_id.tag = "Hash" THEN block_id.of
  ELSE IF block_id.of \in DOMAIN blockchain.hash THEN blockchain.hash[block_id.of]
  ELSE None

\* let block_hash = match *id { Hash(hash) => hash,
\*   Number(number) => blockchain().hash(number)?.ok_or_else(UnknownBlock)? }
ResolveHash ==
  /\ pc = "resolve"
  /\ \/ /\ BlockHashOf(id, chain) # None
        /\ block_hash' = BlockHashOf(id, chain)
        /\ answers' = [answers EXCEPT !.hash =
                         IF id.tag = "Number" THEN "some" ELSE "unasked"]
        /\ Goto("resolve", "fetch")
     \/ /\ BlockHashOf(id, chain) = None
        /\ answers' = [answers EXCEPT !.hash = "none"]
        /\ Fail("resolve", UnknownBlock(id))
        /\ UNCHANGED block_hash
     \/ /\ id.tag = "Number"       \* blockchain().hash(number) returned Err
        /\ answers' = [answers EXCEPT !.hash = "err"]
        /\ Fail("resolve", "Blockchain")
        /\ UNCHANGED block_hash
  /\ UNCHANGED <<entry, at_state, chain, id, method, call_data, remote_result, remote_proof, remote_state,
                 remote_state_root, local_state_root, changes, local_result,
                 pf_vars, ext_vars, cc_vars>>

\* let (remote_result, remote_proof) = fetcher.execution_proof(block_hash, method, call_data)?
\* The remote node answers with any output and any proof, or the fetch fails.
FetchProof ==
  /\ pc = "fetch"
  /\ \/ /\ \E output \in Outputs, proof \in Proofs :
             /\ remote_result' = output
             /\ remote_proof' = proof
        /\ Goto("fetch", "rebuild")
        /\ answers' = [answers EXCEPT !.fetch = "ok"]
     \/ /\ \E error \in FetcherErrors :
             /\ answers' = [answers EXCEPT !.fetch = error]
             /\ Fail("fetch", error)
        /\ UNCHANGED <<remote_result, remote_proof>>
  /\ UNCHANGED <<entry, at_state, chain, id, method, call_data, block_hash, remote_state,
                 remote_state_root, local_state_root, changes, local_result,
                 pf_vars, ext_vars, cc_vars>>

\* let remote_state = state_from_execution_proof(remote_proof);
\* let remote_state_root = trie_root(remote_state.pairs().into_iter()).0;
RebuildState ==
  /\ pc = "rebuild"
  /\ remote_state' = StateFromExecutionProof(remote_proof)
  /\ \E order \in Orderings(DOMAIN remote_state') :
       remote_state_root' = TrieRoot(BackendPairs(remote_state', order))
  /\ Goto("rebuild", "header")
  /\ UNCHANGED <<entry, at_state, answers, chain, id, method, call_data, block_hash, remote_result, remote_proof,
                 local_state_root, changes, local_result, pf_vars, ext_vars, cc_vars>>

\* let local_header = blockchain().header(Hash(block_hash))?.ok_or_else(UnknownBlock)?;
\* let local_state_root = local_header.state_root;
LocalHeader ==
  /\ pc = "header"
  /\ \/ /\ block_hash \in DOMAIN chain.header
        /\ local_state_root' = chain.header[block_hash]
        /\ answers' = [answers EXCEPT !.header = "some"]
        /\ Goto("header", "check_root")
     \/ /\ block_hash \notin DOMAIN chain.header
        /\ answers' = [answers EXCEPT !.header = "none"]
        /\ Fail("header", UnknownBlock([tag |-> "Hash", of |-> block_hash]))
        /\ UNCHANGED local_state_root
     \/ /\ answers' = [answers EXCEPT !.header = "err"]
        /\ Fail("header", "Blockchain")      \* blockchain().header(..) returned Err
        /\ UNCHANGED local_state_root
  /\ UNCHANGED <<entry, at_state, chain, id, method, call_data, block_hash, remote_result, remote_proof,
                 remote_state, remote_state_root, changes, local_result, pf_vars, ext_vars, cc_vars>>

\* The comparison of the roots, were it left out.
RootMismatchNever(remote_root, local_root) == FALSE

\* remote_state_root != *local_state_root
RootMismatch(remote_root, local_root) == remote_root # local_root

\* if remote_state_root != *local_state_root { return Err(InvalidExecutionProof) }
CheckRoot ==
  /\ pc = "check_root"
  /\ IF RootMismatch(remote_state_root, local_state_root)
       THEN Fail("check_root", "InvalidExecutionProof")
       ELSE Goto("check_root", "execute")
  /\ UNCHANGED <<entry, at_state, answers, chain, id, method, call_data, block_hash, remote_result, remote_proof,
                 remote_state, remote_state_root, local_state_root, changes, local_result,
                 pf_vars, ext_vars, cc_vars>>

\* let mut changes = OverlayedChanges::default();
\* let local_result = state_machine::execute(&remote_state, &mut changes, ..)?;
ExecuteLocally ==
  /\ pc = "execute"
  /\ LET run == Execute(InMemoryBackend(remote_state), EmptyOverlay, method, call_data)
     IN /\ changes' = run.overlay
        /\ IF run.status = "Ok"
             THEN /\ local_result' = run.output
                  /\ Goto("execute", "check_output")
             ELSE /\ Fail("execute", FromExecutionError)
                  /\ UNCHANGED local_result
  /\ UNCHANGED <<entry, at_state, answers, chain, id, method, call_data, block_hash, remote_result, remote_proof,
                 remote_state, remote_state_root, local_state_root, pf_vars, ext_vars, cc_vars>>

\* The comparison of the outputs, were it left out.
OutputMismatchNever(local, remote) == FALSE

\* local_result != remote_result
OutputMismatch(local, remote) == local # remote

\* The CallResult, were it built from the remote node's answer and no changes.
CallResultRemote(local, remote, overlay) ==
  [kind |-> "Ok", return_data |-> remote, changes |-> EmptyOverlay]

\* Ok(CallResult { return_data: local_result, changes })
CallResult(local, remote, overlay) ==
  [kind |-> "Ok", return_data |-> local, changes |-> overlay]

\* if local_result != remote_result { return Err(InvalidExecutionProof) }
\* Ok(CallResult { return_data: local_result, changes })
CheckOutput ==
  /\ pc = "check_output"
  /\ IF OutputMismatch(local_result, remote_result)
       THEN Fail("check_output", "InvalidExecutionProof")
       ELSE /\ pc' = "Done"
            /\ result' = CallResult(local_result, remote_result, changes)
            /\ trace' = Append(trace, "check_output")
  /\ UNCHANGED <<entry, at_state, answers, chain, id, method, call_data, block_hash, remote_result, remote_proof,
                 remote_state, remote_state_root, local_state_root, changes, local_result,
                 pf_vars, ext_vars, cc_vars>>

\* The statements of call() that follow the fetch, as one function of what
\* the fetcher returned and of what the blockchain answers for the header
\* (header_failed: blockchain().header(..) returned Err).
RemoteCallFrom(blockchain, hash, header_failed, m, data, claimed, proof) ==
  LET state == StateFromExecutionProof(proof)
      root == TrieRoot(BackendPairs(state, CHOOSE o \in Orderings(DOMAIN state) : TRUE))
      run == Execute(InMemoryBackend(state), EmptyOverlay, m, data)
  IN IF header_failed THEN Failed("Blockchain")
     ELSE IF hash \notin DOMAIN blockchain.header
       THEN Failed(UnknownBlock([tag |-> "Hash", of |-> hash]))
     ELSE IF RootMismatch(root, blockchain.header[hash])
       THEN Failed("InvalidExecutionProof")
     ELSE IF run.status # "Ok" THEN Failed(FromExecutionError)
     ELSE IF OutputMismatch(run.output, claimed) THEN Failed("InvalidExecutionProof")
     ELSE CallResult(run.output, claimed, run.overlay)

Next ==
  \/ ResolveHash
  \/ FetchProof
  \/ RebuildState
  \/ LocalHeader
  \/ CheckRoot
  \/ ExecuteLocally
  \/ CheckOutput

Spec == Init /\ [][Next]_vars

(***************************************************************************)
(* SpecCalls: the methods of both call executors                           *)
(*   LocalCallExecutor::call, RemoteCallExecutor::call and                 *)
(*   RemoteCallExecutor::call_at_state, one call per behaviour.            *)
(***************************************************************************)

\* The states a backend hands out: a snapshot, and the keys whose read fails.
LocalStates == [data : States, broken : SUBSET ByteStrings]

\* The block ids a caller can name.
BlockIds == [tag : {"Hash"}, of : Hashes] \cup [tag : {"Number"}, of : Numbers]

\* The overlays a caller of call_at_state can hand in.
CallerOverlays == [committed : {EmptyMap}, prospective : Tiers]

\* LocalCallExecutor::call is entered with a block id, a method and an input.
InitLocalCall ==
  /\ entry = "LocalCallExecutor::call"
  /\ chain = [hash |-> EmptyMap, header |-> EmptyMap]
  /\ id \in BlockIds
  /\ method \in Methods
  /\ call_data \in ByteStrings
  /\ pc = "state_at"
  /\ block_hash = Unset /\ remote_result = Unset /\ remote_proof = Unset
  /\ remote_state = Unset /\ remote_state_root = Unset /\ local_state_root = Unset
  /\ changes = Unset /\ local_result = Unset /\ at_state = Unset
  /\ result = Pending /\ answers = Unasked /\ trace = <<>>
  /\ PfIdle /\ ExtIdle /\ CcIdle

\* RemoteCallExecutor::call_at_state is entered with a state, an overlay, a
\* method and an input.
InitRemoteCallAtState ==
  /\ entry = "RemoteCallExecutor::call_at_state"
  /\ chain = [hash |-> EmptyMap, header |-> EmptyMap]
  /\ id = Unset
  /\ at_state \in LocalStates
  /\ changes \in CallerOverlays
  /\ method \in Methods
  /\ call_data \in ByteStrings
  /\ pc = "call_at_state"
  /\ block_hash = Unset /\ remote_result = Unset /\ remote_proof = Unset
  /\ remote_state = Unset /\ remote_state_root = Unset /\ local_state_root = Unset
  /\ local_result = Unset
  /\ result = Pending /\ answers = Unasked /\ trace = <<>>
  /\ PfIdle /\ ExtIdle /\ CcIdle

InitCalls == Init \/ InitLocalCall \/ InitRemoteCallAtState

\* let mut changes = OverlayedChanges::default();
\* ... self.backend.state_at(*id)? ...
\* The backend hands out the state of the block, or does not know the block,
\* or fails.
LocalStateAt ==
  /\ pc = "state_at"
  /\ changes' = EmptyOverlay
  /\ \/ /\ at_state' \in LocalStates
        /\ answers' = [answers EXCEPT !.state_at = "ok"]
        /\ Goto("state_at", "call_at_state")
     \/ /\ answers' = [answers EXCEPT !.state_at = "unknown"]
        /\ Fail("state_at", UnknownBlock(id))
        /\ UNCHANGED at_state
     \/ /\ answers' = [answers EXCEPT !.state_at = "err"]
        /\ Fail("state_at", "Backend")
        /\ UNCHANGED at_state
  /\ UNCHANGED <<entry, chain, id, method, call_data, block_hash, remote_result,
                 remote_proof, remote_state, remote_state_root, local_state_root,
                 local_result, pf_vars, ext_vars, cc_vars>>

\* A CallResult that held a fresh overlay in place of the call's own.
LocalCallResultFresh(return_data, overlay) ==
  [kind |-> "Ok", return_data |-> return_data, changes |-> EmptyOverlay]

\* Ok(CallResult { return_data, changes }) of LocalCallExecutor::call.
LocalCallResult(return_data, overlay) ==
  [kind |-> "Ok", return_data |-> return_data, changes |-> overlay]

\* let return_data = self.call_at_state(&state, &mut changes, method, call_data)?;
\* Ok(CallResult { return_data, changes })
\* with call_at_state = state_machine::execute(..).map_err(Into::into).
\* A panic of Ext::storage unwinds through call(), which returns nothing.
LocalCallAtState ==
  /\ pc = "call_at_state"
  /\ entry = "LocalCallExecutor::call"
  /\ LET run == Execute(at_state, changes, method, call_data)
     IN /\ changes' = run.overlay
        /\ CASE run.status = "Ok" ->
                  /\ local_result' = run.output
                  /\ pc' = "Done"
                  /\ result' = LocalCallResult(run.output, run.overlay)
                  /\ trace' = Append(trace, "call_at_state")
             [] run.status = "Err" ->
                  /\ Fail("call_at_state", FromExecutionError)
                  /\ UNCHANGED local_result
             [] run.status = Panic ->
                  /\ pc' = "Panicked"
                  /\ trace' = Append(trace, "call_at_state")
                  /\ UNCHANGED <<local_result, result>>
  /\ UNCHANGED <<entry, at_state, answers, chain, id, method, call_data, block_hash,
                 remote_result, remote_proof, remote_state, remote_state_root,
                 local_state_root, pf_vars, ext_vars, cc_vars>>

\* A call_at_state of the remote executor that ran the method as the local
\* executor does.
CallAtStateOnLightClientExecutes(state, overlay, m, data) ==
  LET run == Execute([data |-> state.data, broken |-> {}], overlay, m, data)
  IN [result |-> IF run.status = "Ok" THEN LocalCallResult(run.output, run.overlay)
                 ELSE Failed(FromExecutionError),
      changes |-> run.overlay,
      steps |-> <<"call_at_state", "execute">>]

\* RemoteCallExecutor::call_at_state(_state, _changes, _method, _call_data):
\* Err(NotAvailableOnLightClient), none of the arguments being used.
CallAtStateOnLightClient(state, overlay, m, data) ==
  [result |-> Failed("NotAvailableOnLightClient"),
   changes |-> overlay,
   steps |-> <<"call_at_state">>]

RemoteCallAtState ==
  /\ pc = "call_at_state"
  /\ entry = "RemoteCallExecutor::call_at_state"
  /\ LET out == CallAtStateOnLightClient(at_state, changes, method, call_data)
     IN /\ result' = out.result
        /\ changes' = out.changes
        /\ trace' = out.steps
        /\ pc' = IF out.result.kind = "Ok" THEN "Done" ELSE "Failed"
  /\ UNCHANGED <<entry, at_state, answers, chain, id, method, call_data, block_hash,
                 remote_result, remote_proof, remote_state, remote_state_root,
                 local_state_root, local_result, pf_vars, ext_vars, cc_vars>>

NextCalls ==
  \/ Next
  \/ LocalStateAt
  \/ LocalCallAtState
  \/ RemoteCallAtState

SpecCalls == InitCalls /\ [][NextCalls]_vars

(***************************************************************************)
(* SpecConc: calls of LocalCallExecutor::call running at once on one state *)
(*   Each call runs its method one Ext operation at a time; the operations *)
(*   of the calls interleave in every order.                               *)
(***************************************************************************)

\* The number of calls running at once.
NumCalls == 2

Calls == 1..NumCalls

\* The Ext operations the methods of the runtime perform, in order
\* (see CodeExecutorCall).
MethodOps(m) ==
  CASE m = "get" -> <<"storage">>
    [] m = "put" -> <<"place_storage", "storage">>
    [] m = "clear" -> <<"place_storage">>
    [] m = "trap" -> <<"place_storage">>

\* The value a method places for its key.
MethodPlaces(m, data) == IF m = "clear" THEN None ELSE data

\* An Ext that reached for the overlay of the first call.
ExtOverlayShared(overlays, i) == overlays[1]

\* Ext { overlay: &mut changes, .. }: the Ext of call i holds the overlay
\* that call i built.
ExtOverlay(overlays, i) == overlays[i]

\* Every call was handed the same state, built its own empty overlay and is
\* about to run its method.
InitConc ==
  /\ cc_snapshot \in LocalStates
  /\ cc_overlays = [i \in Calls |-> EmptyOverlay]
  /\ cc_calls \in [Calls -> [method : Methods, call_data : ByteStrings, at : {1},
                              reads : {<<>>}, status : {"running"}, output : {Unset}]]
  /\ PfIdle /\ ExtIdle /\ RcIdle

\* The operation call i performs next, "return" after the last.
NextOp(i) ==
  LET c == cc_calls[i]
  IN IF c.status # "running" THEN "none"
     ELSE IF c.at > Len(MethodOps(c.method)) THEN "return"
     ELSE MethodOps(c.method)[c.at]

\* Call i reads its key through its Ext; a failed backend read panics.
CcStorage(i) ==
  /\ NextOp(i) = "storage"
  /\ LET c == cc_calls[i]
         read == ExtStorage(ExtOverlay(cc_overlays, i), cc_snapshot, c.call_data)
     IN cc_calls' = [cc_calls EXCEPT ![i] =
          IF read = Panic THEN [c EXCEPT !.status = Panic]
          ELSE [c EXCEPT !.at = c.at + 1, !.reads = Append(c.reads, read)]]
  /\ UNCHANGED <<cc_snapshot, cc_overlays, pf_vars, ext_vars, rc_vars>>

\* Call i places a value for its key through its Ext.
CcPlaceStorage(i) ==
  /\ NextOp(i) = "place_storage"
  /\ LET c == cc_calls[i]
     IN /\ cc_overlays' = [cc_overlays EXCEPT ![i] =
             ExtPlaceStorage(ExtOverlay(cc_overlays, i), c.call_data,
                             MethodPlaces(c.method, c.call_data))]
        /\ cc_calls' = [cc_calls EXCEPT ![i].at = c.at + 1]
  /\ UNCHANGED <<cc_snapshot, pf_vars, ext_vars, rc_vars>>

\* The method of call i returns: what it read last (empty when it read None
\* or nothing), or an error.
CcReturn(i) ==
  /\ NextOp(i) = "return"
  /\ LET c == cc_calls[i]
         last == IF c.reads = <<>> THEN None ELSE c.reads[Len(c.reads)]
     IN cc_calls' = [cc_calls EXCEPT ![i] =
          IF c.method = "trap" THEN [c EXCEPT !.status = "Err"]
          ELSE [c EXCEPT !.status = "Ok",
                         !.output = IF last = None THEN EmptyBytes ELSE last]]
  /\ UNCHANGED <<cc_snapshot, cc_overlays, pf_vars, ext_vars, rc_vars>>

NextConc ==
  \E i \in Calls :
    \/ CcStorage(i)
    \/ CcPlaceStorage(i)
    \/ CcReturn(i)

SpecConc == InitConc /\ [][NextConc]_vars

(***************************************************************************)
(* Properties of RemoteCallExecutor::call (under Spec)                     *)
(***************************************************************************)

\* The number of steps of call() taken so far.
StepsTaken == Len(trace)

\* call() has returned.
Returned == pc \in {"Done", "Failed"}

\* C1: once the rebuilt root has been compared with the state root of the
\* locally held header, a rebuilt root that differs from it means the call has
\* failed with InvalidExecutionProof; a call that returned a CallResult had a
\* rebuilt root equal to the state root of the header of its block.
C1_RootMismatchFails ==
  /\ (StepsTaken >= 5 /\ remote_state_root # local_state_root)
       => (pc = "Failed" /\ result = Failed("InvalidExecutionProof"))
  /\ result.kind = "Ok"
       => (/\ remote_state_root = TrieRoot(BackendPairs(remote_state,
                  CHOOSE o \in Orderings(DOMAIN remote_state) : TRUE))
           /\ remote_state_root = chain.header[block_hash])

\* C1 witness: a call that failed at the comparison of two different roots.
C1_Witness ==
  /\ pc = "Failed" /\ StepsTaken = 5
  /\ remote_state_root # local_state_root
  /\ result = Failed("InvalidExecutionProof")

\* C2: when the roots matched and the local re-execution returned an output
\* that differs from the output the remote node claimed, the call has failed
\* with InvalidExecutionProof and returned no CallResult.
C2_OutputMismatchFails ==
  (StepsTaken = 7 /\ local_result # remote_result)
    => (/\ remote_state_root = local_state_root
        /\ pc = "Failed"
        /\ result = Failed("InvalidExecutionProof"))

\* C2 witness: roots equal, outputs different, the call failed at the last step.
C2_Witness ==
  /\ pc = "Failed" /\ StepsTaken = 7
  /\ remote_state_root = local_state_root
  /\ local_result # remote_result
  /\ result = Failed("InvalidExecutionProof")

\* C3: a returned CallResult means both the roots and the outputs matched, its
\* return_data is the local output and its changes are the overlay the local
\* re-execution left; and a call that got through the header lookup with
\* matching roots, a local execution that succeeds and matching outputs has,
\* once returned, returned a CallResult.
C3_OkIffBothMatch ==
  /\ result.kind = "Ok"
       => (/\ pc = "Done"
           /\ remote_state_root = local_state_root
           /\ local_result = remote_result
           /\ result.return_data = local_result
           /\ result.return_data = remote_result
           /\ result.changes = changes
           /\ changes = Execute(InMemoryBackend(remote_state), EmptyOverlay,
                                method, call_data).overlay)
  /\ (/\ Returned
      /\ StepsTaken >= 5
      /\ remote_state_root = local_state_root
      /\ Execute(InMemoryBackend(remote_state), EmptyOverlay, method, call_data).status = "Ok"
      /\ Execute(InMemoryBackend(remote_state), EmptyOverlay, method, call_data).output
           = remote_result)
       => result.kind = "Ok"

\* C3 witness: a successful call whose method wrote to the overlay.
C3_Witness ==
  /\ pc = "Done" /\ result.kind = "Ok"
  /\ result.changes # EmptyOverlay
  /\ result.return_data \in ByteStrings

\* The first n steps of call().
StepsPrefix(n) == SubSeq(Steps, 1, n)

\* C4: the steps taken are always the first steps of the order resolve, fetch,
\* rebuild, header, check_root, execute, check_output, so each is taken at most
\* once and in that order; a call that is Done took all of them and a failed
\* call stopped at one of them; the executor ran only after the roots compared
\* equal, and the fetcher ran only for a block id that resolves to a hash.
C4_StepsInOrder ==
  /\ StepsTaken <= Len(Steps)
  /\ trace = StepsPrefix(StepsTaken)
  /\ pc = "Done" => trace = Steps
  /\ pc = "Failed" => (StepsTaken >= 1 /\ result.kind = "Err")
  /\ ~Returned => (pc = Steps[StepsTaken + 1] /\ result = Pending)
  /\ StepsTaken >= 6 => remote_state_root = local_state_root
  /\ StepsTaken >= 2 => (/\ block_hash \in Hashes
                         /\ id.tag = "Number" => (/\ id.of \in DOMAIN chain.hash
                                                  /\ block_hash = chain.hash[id.of])
                         /\ id.tag = "Hash" => block_hash = id.of)

\* C4 witness: a call that took every step and is Done, for a block given by number.
C4_Witness == pc = "Done" /\ trace = Steps /\ id.tag = "Number"

\* C5: an execution proof with an odd number of elements is rejected as
\* malformed: no call returns a CallResult from one.
C5_OddProofRejected ==
  result.kind = "Ok" => Len(remote_proof) % 2 = 0

(***************************************************************************)
(* Properties of the proof codec (under SpecProof)                         *)
(***************************************************************************)

\* The number of (key, value) pairs of a proof; a trailing element is no pair.
PairCount(proof) == Len(proof) \div 2

\* The state a proof describes: each key of a pair, with the value of the last
\* pair that has the key.
PairedState(proof) ==
  [k \in {proof[2 * i - 1] : i \in 1..PairCount(proof)} |->
     proof[2 * (CHOOSE i \in 1..PairCount(proof) :
                  /\ proof[2 * i - 1] = k
                  /\ \A j \in 1..PairCount(proof) : proof[2 * j - 1] = k => j <= i)]]

\* C6: decoding a proof of 2n+1 elements yields a state (no error), the same
\* state as decoding its first 2n elements: every pair before the trailing
\* element is inserted and the trailing element is dropped.
C6_OddProofTruncated ==
  (pf_pc = "decoded" /\ Len(pf_proof) % 2 = 1)
    => (/\ pf_out \in States
        /\ pf_out = StateFromExecutionProof(SubSeq(pf_proof, 1, Len(pf_proof) - 1))
        /\ pf_out = PairedState(SubSeq(pf_proof, 1, Len(pf_proof) - 1)))

\* C6 witness: a decoded proof of five elements whose trailing element is a
\* key that none of its pairs has.
C6_Witness ==
  /\ pf_pc = "decoded" /\ Len(pf_proof) = 5
  /\ pf_proof[5] \notin DOMAIN pf_out
  /\ DOMAIN pf_out # {}

\* C7: the encoded proof of a state is an alternating key, value sequence with
\* one pair per key of the state, so of even length; decoding it gives back
\* the state; and decoding any proof gives each key the value of its last pair.
C7_RoundTrip ==
  /\ (pf_mode = "encode" /\ pf_pc \in {"encoded", "decoded"})
       => (/\ Len(pf_proof) = 2 * Cardinality(DOMAIN pf_state)
           /\ {pf_proof[2 * i - 1] : i \in 1..PairCount(pf_proof)} = DOMAIN pf_state
           /\ \A i \in 1..PairCount(pf_proof) :
                pf_proof[2 * i] = pf_state[pf_proof[2 * i - 1]])
  /\ (pf_mode = "encode" /\ pf_pc = "decoded") => pf_out = pf_state
  /\ (pf_mode = "decode" /\ pf_pc = "decoded") => pf_out = PairedState(pf_proof)

\* C7 witness: a state of two keys with different values, encoded and decoded.
C7_Witness ==
  /\ pf_mode = "encode" /\ pf_pc = "decoded"
  /\ DOMAIN pf_state = ByteStrings
  /\ pf_state["a"] # pf_state["b"]
  /\ pf_state["a"] # "a"

(***************************************************************************)
(* Properties of Ext (under SpecExt)                                       *)
(***************************************************************************)

\* C8: a storage read returns the key's prospective entry when there is one,
\* else its committed entry when there is one, else the backend's value, or
\* None when the backend has none (a failed backend read aborts the read).
C8_ReadPrecedence ==
  ext_last.op = "storage" =>
    LET k == ext_last.key
        r == ext_last.result
    IN IF k \in DOMAIN ext_overlay.prospective THEN r = ext_overlay.prospective[k]
       ELSE IF k \in DOMAIN ext_overlay.committed THEN r = ext_overlay.committed[k]
       ELSE IF k \in ext_backend.broken THEN r = Panic
       ELSE IF k \in DOMAIN ext_backend.data THEN r = ext_backend.data[k]
       ELSE r = None

\* C8 witness: a read of a key that the backend, the committed tier and the
\* prospective tier all hold, with a prospective value the others do not have.
C8_Witness ==
  /\ ext_last.op = "storage"
  /\ ext_last.key \in DOMAIN ext_backend.data
  /\ ext_last.key \in DOMAIN ext_overlay.committed
  /\ ext_last.key \in DOMAIN ext_overlay.prospective
  /\ ext_backend.data[ext_last.key] = "a"
  /\ ext_overlay.committed[ext_last.key] = None
  /\ ext_overlay.prospective[ext_last.key] = "b"
  /\ ext_last.result = "b"

\* C9: a key that has been placed reads as the value placed last, None when
\* that was a deletion, whatever the backend and the committed tier hold.
C9_ReadsLatestPlaced ==
  /\ \A k \in ByteStrings :
       ext_placed[k] # Unplaced => ExtStorage(ext_overlay, ext_backend, k) = ext_placed[k]
  /\ (ext_last.op = "storage" /\ ext_placed[ext_last.key] # Unplaced)
       => ext_last.result = ext_placed[ext_last.key]

\* C9 witness: a read that returns None for a key deleted last, which the
\* backend and the committed tier hold with a value.
C9_Witness ==
  /\ ext_last.op = "storage"
  /\ ext_placed[ext_last.key] = None
  /\ ext_last.result = None
  /\ ext_last.key \in DOMAIN ext_backend.data
  /\ ext_last.key \in DOMAIN ext_overlay.committed
  /\ ext_overlay.committed[ext_last.key] # None

\* The pair (k, v) is among the pairs handed to trie_root.
InRootInput(k, v) == \E i \in 1..Len(ext_last.input) : ext_last.input[i] = <<k, v>>

\* The entry a key resolves to: prospective over committed over backend.
Resolved(k) ==
  IF k \in DOMAIN ext_overlay.prospective THEN ext_overlay.prospective[k]
  ELSE IF k \in DOMAIN ext_overlay.committed THEN ext_overlay.committed[k]
  ELSE IF k \in DOMAIN ext_backend.data THEN ext_backend.data[k]
  ELSE None

\* C10: the pairs storage_root hands to trie_root are, each once, the pairs
\* (k, v) with v the value k resolves to (prospective over committed over
\* backend), tombstones left out; (k, v) is among them exactly when
\* Ext::storage(k) returns v, for every key whose read does not abort.
C10_RootInputIsMergedSet ==
  ext_last.op = "storage_root" =>
    /\ \A k \in ByteStrings, v \in ByteStrings : InRootInput(k, v) <=> Resolved(k) = v
    /\ \A i, j \in 1..Len(ext_last.input) :
         ext_last.input[i][1] = ext_last.input[j][1] => i = j
    /\ \A k \in ByteStrings, v \in ByteStrings :
         ExtStorage(ext_overlay, ext_backend, k) # Panic
           => (InRootInput(k, v) <=> ExtStorage(ext_overlay, ext_backend, k) = v)
    /\ ext_last.root = TrieRoot(ext_last.input)

\* C10 witness: a root taken where a committed tombstone removes a backend
\* value of one key, and a prospective value revives the other key, which the
\* committed tier had deleted.
C10_Witness ==
  /\ ext_last.op = "storage_root"
  /\ "a" \in DOMAIN ext_backend.data
  /\ "a" \in DOMAIN ext_overlay.committed /\ ext_overlay.committed["a"] = None
  /\ "a" \notin DOMAIN ext_overlay.prospective
  /\ "b" \in DOMAIN ext_overlay.committed /\ ext_overlay.committed["b"] = None
  /\ "b" \in DOMAIN ext_overlay.prospective /\ ext_overlay.prospective["b"] = "a"
  /\ ext_last.input = <<(<<"b", "a">>)>>

\* C11: a root computed after an earlier root, with no write in between or
\* with one write and then a write of the value the key read as before it
\* (None when it read as absent), equals the earlier root; and computing a root
\* changes neither the overlay nor the backend.
C11_RootIdempotentRevertStable ==
  /\ [](ext_last.op = "storage_root" /\ ext_last.prev.phase \in {"rooted", "reverted"}
          => ext_last.root = ext_last.prev.root)
  /\ [][(ext_last'.op = "storage_root" /\ ext_last' # ext_last)
          => (ext_overlay' = ext_overlay /\ ext_backend' = ext_backend)]_vars

\* C11 witness: a root computed after a write to a key that read as absent
\* was taken back by a deletion, equal to the root before the write.
C11_Witness ==
  /\ ext_last.op = "storage_root"
  /\ ext_last.prev.phase = "reverted"
  /\ ext_last.root = ext_last.prev.root
  /\ \E k \in ByteStrings :
       /\ k \notin DOMAIN ext_backend.data
       /\ k \notin DOMAIN ext_overlay.committed
       /\ k \in DOMAIN ext_overlay.prospective
       /\ ext_overlay.prospective[k] = None

\* C12: a place_storage leaves the committed tier and the backend as they
\* were and changes the prospective tier by the one entry written; so both
\* are always what they were when the Ext was built over them.
C12_PlaceOnlyProspective ==
  [][(ext_last'.op = "place_storage" /\ ext_last' # ext_last)
       => (/\ ext_overlay'.committed = ext_overlay.committed
           /\ ext_backend' = ext_backend
           /\ ext_overlay'.prospective =
                InMemoryInsert(ext_overlay.prospective, ext_last'.key, ext_last'.value))]_vars

\* C12 witness: both keys placed over a committed tier and a backend that
\* hold other values for them.
C12_Witness ==
  /\ ext_last.op = "place_storage"
  /\ DOMAIN ext_overlay.prospective = ByteStrings
  /\ DOMAIN ext_overlay.committed = ByteStrings
  /\ DOMAIN ext_backend.data = ByteStrings
  /\ \A k \in ByteStrings : /\ ext_overlay.prospective[k] # ext_overlay.committed[k]
                            /\ ext_overlay.prospective[k] # ext_backend.data[k]

\* C18: a storage read of a key the overlay has an entry for returns that
\* entry without reading the backend, whether or not the backend's read of
\* the key would fail; a read of a key the overlay has no entry for reads the
\* backend, and when that read fails the read panics and the Ext is used no
\* further, else it returns what the backend read.
C18_BackendReadOnlyWithoutEntry ==
  ext_last.op = "storage" =>
    LET k == ext_last.key
    IN IF k \in (DOMAIN ext_overlay.prospective) \cup (DOMAIN ext_overlay.committed)
         THEN /\ ext_last.reads = {}
              /\ ext_last.result # Panic
              /\ ext_last.result = OverlayStorage(ext_overlay, k)
         ELSE /\ ext_last.reads = {k}
              /\ k \in ext_backend.broken => (ext_last.result = Panic /\ ~ExtRunning)
              /\ k \notin ext_backend.broken
                   => ext_last.result = BackendStorage(ext_backend, k)

\* C18 witness: a read served by the overlay although the backend's read of
\* the key would fail.
C18_Witness ==
  /\ ext_last.op = "storage"
  /\ ext_last.key \in ext_backend.broken
  /\ ext_last.key \in DOMAIN ext_overlay.committed
  /\ ext_last.reads = {}
  /\ ext_last.result \in ByteStrings

(***************************************************************************)
(* Errors of RemoteCallExecutor::call (under Spec)                         *)
(***************************************************************************)

\* The local re-execution of the call failed in the code executor.
ExecutorFailed ==
  Execute(InMemoryBackend(remote_state), EmptyOverlay, method, call_data).status # "Ok"

\* C13: a call that returned has failed with InvalidExecutionProof exactly
\* when it failed at the comparison of two different roots or at the
\* comparison of two different outputs; a number the blockchain has no hash
\* for fails with UnknownBlock, a failed fetch fails with the very error of
\* the fetcher, and a failure of the code executor during the local
\* re-execution fails with Execution.
C13_InvalidProofIffMismatch ==
  Returned =>
    /\ result = Failed("InvalidExecutionProof")
         <=> \/ pc = "Failed" /\ StepsTaken = 5 /\ remote_state_root # local_state_root
             \/ pc = "Failed" /\ StepsTaken = 7 /\ local_result # remote_result
    /\ answers.hash = "none" => result = Failed("UnknownBlock")
    /\ answers.fetch \in FetcherErrors => result = Failed(answers.fetch)
    /\ (StepsTaken >= 6 /\ ExecutorFailed)
         => (StepsTaken = 6 /\ result = Failed("Execution"))

\* C13 witness: the roots matched and the code executor failed during the
\* local re-execution.
C13_Witness ==
  /\ pc = "Failed" /\ StepsTaken = 6
  /\ remote_state_root = local_state_root
  /\ ExecutorFailed
  /\ result = Failed("Execution")

\* C14: a call by a number the blockchain has no hash for has failed with
\* UnknownBlock after its first step; a call whose block hash has no header
\* in the blockchain has failed with UnknownBlock at the header lookup,
\* whatever the fetcher returned; neither ran the code executor nor returned
\* a CallResult (a lookup that itself fails is another error).
C14_UnknownBlockFails ==
  /\ (StepsTaken >= 1 /\ id.tag = "Number" /\ id.of \notin DOMAIN chain.hash
        /\ answers.hash # "err")
       => (/\ pc = "Failed" /\ result = Failed("UnknownBlock")
           /\ trace = <<"resolve">> /\ changes = Unset)
  /\ (StepsTaken >= 4 /\ block_hash \notin DOMAIN chain.header
        /\ answers.header # "err")
       => (/\ pc = "Failed" /\ result = Failed("UnknownBlock")
           /\ trace = StepsPrefix(4) /\ changes = Unset)

\* C14 witness: the fetcher returned a proof of one pair and a non-empty
\* output for a block whose header the blockchain does not hold.
C14_Witness ==
  /\ pc = "Failed" /\ StepsTaken = 4
  /\ block_hash \notin DOMAIN chain.header
  /\ answers.header = "none"
  /\ Len(remote_proof) = 2 /\ remote_result \in ByteStrings
  /\ result = Failed("UnknownBlock")

(***************************************************************************)
(* The proof as seen by RemoteCallExecutor::call (under Spec)              *)
(***************************************************************************)

\* The proof that lists each pair of a state once.
CanonProof(state) ==
  StateToExecutionProof(BackendPairs(state, CHOOSE o \in Orderings(DOMAIN state) : TRUE))

\* C20: a call whose fetch succeeded rebuilds the root of the key/value set
\* its proof describes and returns what a call would return that was given
\* the proof listing each pair of that set once, for the same block, method,
\* input and remote output: the proof counts through its key/value set only.
C20_OutcomeDependsOnDecodedSet ==
  LET set == PairedState(remote_proof)
  IN /\ StepsTaken >= 3
          => remote_state_root = TrieRoot(BackendPairs(set,
                 CHOOSE o \in Orderings(DOMAIN set) : TRUE))
     /\ (Returned /\ StepsTaken >= 4)
          => result = RemoteCallFrom(chain, block_hash, answers.header = "err",
                         method, call_data, remote_result, CanonProof(set))

\* C20 witness: a call accepted on a proof that gives two values for one key
\* and has a trailing element.
C20_Witness ==
  /\ pc = "Done"
  /\ Len(remote_proof) = 5
  /\ remote_proof[1] = remote_proof[3] /\ remote_proof[2] # remote_proof[4]
  /\ remote_proof # CanonProof(PairedState(remote_proof))

(***************************************************************************)
(* Properties of the call executors' methods (under SpecCalls)             *)
(***************************************************************************)

\* C15: call_at_state of the remote executor, entered with any state, overlay,
\* method and input, returns NotAvailableOnLightClient in one step in which
\* neither the fetcher nor the code executor is called, and no step of it
\* changes the overlay the caller handed in.
C15_CallAtStateNotAvailable ==
  /\ [](entry = "RemoteCallExecutor::call_at_state"
          => /\ pc \in {"call_at_state", "Failed"}
             /\ pc = "Failed"
                  => /\ result = Failed("NotAvailableOnLightClient")
                     /\ trace = <<"call_at_state">>
             /\ answers = Unasked /\ local_result = Unset /\ remote_proof = Unset)
  /\ [][entry = "RemoteCallExecutor::call_at_state"
          => (changes' = changes /\ at_state' = at_state /\ pc' = "Failed")]_vars

\* C15 witness: call_at_state has returned for a method that writes, a state
\* that holds the key and an overlay that holds another entry.
C15_Witness ==
  /\ entry = "RemoteCallExecutor::call_at_state"
  /\ pc = "Failed"
  /\ method = "put" /\ call_data \in DOMAIN at_state.data
  /\ DOMAIN changes.prospective = ByteStrings \ {call_data}

\* The code executor fails on the method of the call.
MethodFails == method = "trap"

\* C16: for LocalCallExecutor::call and RemoteCallExecutor::call, a call that
\* failed returned an error that holds its kind only, no CallResult and no
\* overlay, and only a call that succeeded returned an overlay; the local
\* call fails when the backend does not hand out the state or when the code
\* executor fails, the writes the executor had placed notwithstanding.
C16_NoOverlayFromFailedCall ==
  entry \in {"LocalCallExecutor::call", "RemoteCallExecutor::call"} =>
    /\ pc = "Failed" => (DOMAIN result = {"kind", "error"} /\ result.kind = "Err")
    /\ pc \notin {"Done", "Failed"} => result = Pending
    /\ pc = "Done" => result.kind = "Ok"
    /\ answers.state_at \in {"unknown", "err"} => pc = "Failed"
    /\ (MethodFails /\ StepsTaken >= 2 /\ entry = "LocalCallExecutor::call")
         => (pc = "Failed" /\ result.error = "Execution")
    /\ (MethodFails /\ StepsTaken >= 6 /\ entry = "RemoteCallExecutor::call")
         => (pc = "Failed" /\ result.error = "Execution")

\* C16 witness: a local call failed in the code executor after the method
\* had placed a write in the call's overlay.
C16_Witness ==
  /\ entry = "LocalCallExecutor::call"
  /\ pc = "Failed"
  /\ answers.state_at = "ok"
  /\ changes.prospective # EmptyMap
  /\ result.error = "Execution"

\* The writes a method places, as the prospective tier of an empty overlay.
WritesOf(m, data) ==
  CASE m = "get" -> EmptyMap
    [] m = "put" -> [k \in {data} |-> data]
    [] m = "clear" -> [k \in {data} |-> None]
    [] m = "trap" -> [k \in {data} |-> data]

\* C17: a local call on a block whose state the backend hands out runs the
\* method on an empty overlay; a call that succeeded returned an overlay
\* whose committed tier is empty and whose prospective tier holds exactly the
\* writes the method placed, and a method that writes a key and reads it back
\* returned the written value, whatever the backend holds for the key.
C17_LocalCallReturnsWrites ==
  entry = "LocalCallExecutor::call" =>
    /\ pc = "call_at_state" => (answers.state_at = "ok" /\ changes = EmptyOverlay)
    /\ pc = "Done"
         => /\ answers.state_at = "ok"
            /\ result.changes.committed = EmptyMap
            /\ result.changes.prospective = WritesOf(method, call_data)
            /\ method = "put" => result.return_data = call_data
            /\ method = "get" =>
                  result.return_data =
                    IF call_data \in DOMAIN at_state.data
                      THEN at_state.data[call_data] ELSE EmptyBytes

\* C17 witness: the backend holds another value for the key the method
\* writes, and the call returned the written value and the one write.
C17_Witness ==
  /\ entry = "LocalCallExecutor::call"
  /\ pc = "Done" /\ method = "put"
  /\ call_data \in DOMAIN at_state.data
  /\ at_state.data[call_data] # call_data
  /\ result.return_data = call_data
  /\ result.changes.prospective = [k \in {call_data} |-> call_data]

(***************************************************************************)
(* Calls running at once (under SpecConc)                                  *)
(***************************************************************************)

\* What the method of call c reads when the call runs alone.
AloneRead(c) ==
  IF c.method = "put" THEN c.call_data ELSE BackendStorage(cc_snapshot, c.call_data)

\* C19: in every interleaving of the reads and writes of the calls, each
\* call reads what it would read alone on the state, and a call that has
\* ended has the status, the output and the overlay of the same method run
\* alone on an empty overlay over the state; the overlay of a call holds
\* nothing but that call's own write, and the state never changes.
C19_CallsIsolated ==
  /\ [](\A i \in DOMAIN cc_calls :
          LET c == cc_calls[i]
              alone == CodeExecutorCall(EmptyOverlay, cc_snapshot, c.method, c.call_data)
          IN /\ \A n \in 1..Len(c.reads) : c.reads[n] = AloneRead(c)
             /\ cc_overlays[i].committed = EmptyMap
             /\ DOMAIN cc_overlays[i].prospective \subseteq {c.call_data}
             /\ c.status # "running"
                  => /\ c.status = alone.status
                     /\ cc_overlays[i] = alone.overlay
                     /\ c.status = "Ok" => c.output = alone.output)
  /\ [][cc_snapshot' = cc_snapshot]_vars

\* C19 witness: the first call has written a key and not yet read it back,
\* and the second call has meanwhile read the key and returned the value of
\* the state, which is not the value the first call wrote.
C19_Witness ==
  /\ DOMAIN cc_calls = Calls
  /\ cc_calls[1].method = "put" /\ cc_calls[1].at = 2 /\ cc_calls[1].status = "running"
  /\ cc_calls[2].method = "get" /\ cc_calls[2].status = "Ok"
  /\ cc_calls[2].call_data = cc_calls[1].call_data
  /\ cc_calls[2].output \in ByteStrings \ {cc_calls[1].call_data}
  /\ cc_overlays[1].prospective # EmptyMap

====
